---- MODULE Spec2Model ----
(***************************************************************************)
(* Model of the EmailVerify node SDK: the error taxonomy (errors.ts) and   *)
(* the request pipeline of the client (client.ts): constructor, request,   *)
(* handleErrorResponse, sleep and the domain methods.                      *)
(*                                                                         *)
(* JavaScript values are encoded as follows.                               *)
(*   - an optional number is a record [t, n] with t one of "undefined",    *)
(*     "NaN", "num";                                                      *)
(*   - an optional atom (error code, details, api key, job status) is a   *)
(*     TLA+ string, the atom Undefined standing for undefined and "" for  *)
(*     the empty string;                                                  *)
(*   - a text that the code builds or parses (message, path, header) is a *)
(*     sequence of tokens, <<>> being the empty string.                   *)
(***************************************************************************)
EXTENDS Integers, Sequences, FiniteSets, TLC

\* ------------------------------------------------------------------ bounds
MaxCfgRetries == 2      \* largest retries value a configuration supplies
CfgTimeout == 2         \* the non-default timeout a configuration supplies
MaxEmails == 10001      \* longest email list handed to verifyBulk
MaxWaitBound == 2       \* largest maxWait handed to waitForBulkJobCompletion
MaxPollInterval == 1    \* largest pollInterval handed to it

\* ------------------------------------------------------- program constants
DEFAULT_TIMEOUT == 30000
DEFAULT_RETRIES == 3
MAX_BULK_EMAILS == 10000

\* --------------------------------------------------------- value encoding
Undefined == "<undefined>"
UndefinedText == <<Undefined>>

U == [t |-> "undefined", n |-> 0]
NaN == [t |-> "NaN", n |-> 0]
N(k) == [t |-> "num", n |-> k]

\* JavaScript truthiness of an optional number, atom and text.
TruthyNum(x) == x.t = "num" /\ x.n # 0
TruthyAtom(s) == s # Undefined /\ s # ""
TruthyText(s) == s # UndefinedText /\ s # <<>>

Min(a, b) == IF a < b THEN a ELSE b

RECURSIVE Pow2_ZeroBased(_)
Pow2_ZeroBased(k) == IF k <= 1 THEN 1 ELSE 2 * Pow2_ZeroBased(k - 1)

RECURSIVE Pow2(_)
Pow2(k) == IF k <= 0 THEN 1 ELSE 2 * Pow2(k - 1)

DigitChar == <<"0", "1", "2", "3", "4", "5", "6", "7", "8", "9">>

\* Number.prototype.toString for a non-negative integer: its decimal digits.
RECURSIVE Digits(_)
Digits(k) ==
  IF k < 10 THEN <<DigitChar[k + 1]>>
  ELSE Digits(k \div 10) \o <<DigitChar[(k % 10) + 1]>>

IsDigit(ch) == \E i \in 1..10 : DigitChar[i] = ch
DigitVal(ch) == (CHOOSE i \in 1..10 : DigitChar[i] = ch) - 1
IsSpace(ch) == ch = " "

RECURSIVE SkipSpaces(_)
SkipSpaces(s) ==
  IF s # <<>> /\ IsSpace(Head(s)) THEN SkipSpaces(Tail(s)) ELSE s

\* The longest prefix of decimal digits of s, folded into acc; cnt counts them.
RECURSIVE DigitPrefix(_, _, _)
DigitPrefix(s, acc, cnt) ==
  IF s # <<>> /\ IsDigit(Head(s))
  THEN DigitPrefix(Tail(s), 10 * acc + DigitVal(Head(s)), cnt + 1)
  ELSE [val |-> acc, cnt |-> cnt]

\* parseInt(s, 10): leading white space is skipped, one sign is read, then the
\* longest run of digits; no digit at all gives NaN.
ParseInt(s) ==
  LET t == SkipSpaces(s)
      neg == t # <<>> /\ Head(t) = "-"
      signed == t # <<>> /\ Head(t) \in {"-", "+"}
      body == IF signed THEN Tail(t) ELSE t
      p == DigitPrefix(body, 0, 0)
  IN IF p.cnt = 0 THEN NaN ELSE N(IF neg THEN 0 - p.val ELSE p.val)

\* ----------------------------------------------------------- errors.ts
EmailVerifyError(message, code, statusCode, details) ==
  [name |-> "EmailVerifyError", message |-> message, code |-> code,
   statusCode |-> statusCode, details |-> details, retryAfter |-> U]

AuthenticationError(message) ==
  [EmailVerifyError(IF message = UndefinedText
                    THEN <<"Invalid or missing API key">> ELSE message,
                    "INVALID_API_KEY", 401, Undefined)
   EXCEPT !.name = "AuthenticationError"]

RateLimitError_NoDefault(message, retryAfter) ==
  [EmailVerifyError(IF message = UndefinedText
                    THEN <<"Rate limit exceeded">> ELSE message,
                    "RATE_LIMIT_EXCEEDED", 429, Undefined)
   EXCEPT !.name = "RateLimitError", !.retryAfter = retryAfter]

RateLimitError(message, retryAfter) ==
  [EmailVerifyError(IF message = UndefinedText
                    THEN <<"Rate limit exceeded">> ELSE message,
                    "RATE_LIMIT_EXCEEDED", 429, Undefined)
   EXCEPT !.name = "RateLimitError",
          !.retryAfter = IF retryAfter = U THEN N(0) ELSE retryAfter]

ValidationError(message, details) ==
  [EmailVerifyError(message, "INVALID_REQUEST", 400, details)
   EXCEPT !.name = "ValidationError"]

InsufficientCreditsError(message) ==
  [EmailVerifyError(IF message = UndefinedText
                    THEN <<"Insufficient credits">> ELSE message,
                    "INSUFFICIENT_CREDITS", 403, Undefined)
   EXCEPT !.name = "InsufficientCreditsError"]

NotFoundError(message) ==
  [EmailVerifyError(IF message = UndefinedText
                    THEN <<"Resource not found">> ELSE message,
                    "NOT_FOUND", 404, Undefined)
   EXCEPT !.name = "NotFoundError"]

TimeoutError(message) ==
  [EmailVerifyError(IF message = UndefinedText
                    THEN <<"Request timed out">> ELSE message,
                    "TIMEOUT", 504, Undefined)
   EXCEPT !.name = "TimeoutError"]

\* An exception of the runtime that is no EmailVerifyError (a TypeError, a
\* SyntaxError); the fields of the taxonomy are absent from it.
RuntimeError(name, message) ==
  [name |-> name, message |-> message, code |-> Undefined,
   statusCode |-> 0, details |-> Undefined, retryAfter |-> U]

NoError == RuntimeError("<none>", <<>>)

\* error instanceof EmailVerifyError
TaxonomyNames ==
  {"EmailVerifyError", "AuthenticationError", "RateLimitError",
   "ValidationError", "InsufficientCreditsError", "NotFoundError",
   "TimeoutError"}
IsEmailVerifyError(e) == e.name \in TaxonomyNames

\* ------------------------------------------------------------ JSON bodies
\* The error member of an error-response body ({code, message, details}).
NoApiError ==
  [present |-> FALSE, code |-> Undefined, message |-> UndefinedText,
   details |-> Undefined]
ApiError(code, message, details) ==
  [present |-> TRUE, code |-> code, message |-> message, details |-> details]

\* What response.json() yields: JSON null, an object (with its status and
\* error members, absent ones being undefined), or a failure for a body that
\* is not JSON (NotJson).  JUndefined is the JavaScript value undefined.
JNull == [kind |-> "null", status |-> Undefined, error |-> NoApiError]
JObject(status, error) == [kind |-> "object", status |-> status, error |-> error]
JUndefined == [kind |-> "undefined", status |-> Undefined, error |-> NoApiError]
NotJson == [kind |-> "notjson", status |-> Undefined, error |-> NoApiError]

\* ------------------------------------------------------------ input sets
ApiKeys == {Undefined, "", "key"}
BaseUrls == {UndefinedText, <<"https://h", "/">>}
CfgTimeouts == {U, N(0), N(CfgTimeout)}
CfgRetries == {U} \cup {N(k) : k \in 0..MaxCfgRetries}
\* The configurations handed to the constructor: every retries value with
\* the default base URL and timeout, every base URL and timeout with at most
\* one attempt.
Configs ==
  {cfg \in [apiKey : ApiKeys, baseUrl : BaseUrls, timeout : CfgTimeouts,
            retries : CfgRetries] :
     \/ cfg.baseUrl = UndefinedText /\ cfg.timeout = U
     \/ cfg.retries \in {N(0), N(1)}}

Statuses == {200, 204, 400, 401, 403, 404, 418, 429, 500, 502, 503}
StatusText == <<"status text">>

NoHeader == [present |-> FALSE, text |-> <<>>]
Header(text) == [present |-> TRUE, text |-> text]
RetryAfterHeaders ==
  {NoHeader, Header(<<>>), Header(<<"0">>), Header(<<"W", "e", "d">>),
   Header(<<" ", "1", "2", "s">>)}
\* The Retry-After header is read from a 429 response only.
HeadersOf(status) == IF status = 429 THEN RetryAfterHeaders ELSE {NoHeader}

ErrorBodies ==
  {NotJson, JNull, JObject(Undefined, NoApiError)}
  \cup {JObject(Undefined,
                ApiError(code, <<"server message">>, "server details")) :
          code \in {Undefined, "INSUFFICIENT_CREDITS", "SRV_CODE"}}
  \cup {JObject(Undefined, ApiError("SRV_CODE", message, Undefined)) :
          message \in {UndefinedText, <<>>}}

JobStatuses == {"pending", "processing", "completed", "failed"}
SuccessBodies ==
  {NotJson, JNull, JObject(Undefined, NoApiError)}
  \cup {JObject(st, NoApiError) : st \in JobStatuses}

EmailCounts == {0, MAX_BULK_EMAILS} \cup (MAX_BULK_EMAILS + 1)..MaxEmails
Limits == {U, N(10)}
Offsets == {U, N(0)}
ResultStatuses == {Undefined}
PollIntervals == 1..MaxPollInterval
MaxWaits == 0..MaxWaitBound
MaxClock == MaxWaitBound + MaxPollInterval

JobId == "job1"
WebhookId == "wh1"

\* ------------------------------------------------------------------ state
Calls == {1}

\* The logical calls that can be in progress on the one client at a time.
MaxCalls == 2
Slots == 1..MaxCalls

VARIABLES
  client,    \* the EmailVerify instance: its four fields, or the error thrown
  call,      \* per logical call: the domain method and its request arguments
  pc,        \* per logical call: "idle", "request", "pollSleep", "done"
  stack,     \* per logical call: the activations of request(), outermost first
  outcome,   \* per logical call: how the promise given to the caller settled
  reqLog,    \* per logical call: the fetch() calls issued, in order
  sleeps,    \* per logical call: the arguments of sleep(), in order
  elapsed,   \* per logical call: Date.now() - startTime of the bulk-job wait
  lib,       \* the last call that issues no request: its arguments and result
  timers     \* per logical call: the abort timer of every attempt, in order

vars ==
  <<client, call, pc, stack, outcome, reqLog, sleeps, elapsed, lib, timers>>

NoClient ==
  [state |-> "none", apiKey |-> Undefined, baseUrl |-> UndefinedText,
   timeout |-> 0, retries |-> 0, error |-> NoError]

NoCall ==
  [op |-> "none", method |-> "", path |-> <<>>, body |-> Undefined,
   emails |-> 0, pollInterval |-> 0, maxWait |-> 0]

Pending == [state |-> "pending", value |-> JUndefined, error |-> NoError]
Resolved(v) == [state |-> "resolved", value |-> v, error |-> NoError]
Rejected(e) == [state |-> "rejected", value |-> JUndefined, error |-> e]

\* No error has been constructed and no signature verified yet.
NoLib ==
  [op |-> "none", payload |-> <<>>, signature |-> <<>>, secret |-> <<>>,
   variant |-> "none", message |-> UndefinedText, retryAfter |-> U, details |-> Undefined,
   result |-> "none", error |-> NoError]

Init ==
  /\ client = NoClient
  /\ call = [c \in Slots |-> NoCall]
  /\ pc = [c \in Slots |-> "idle"]
  /\ stack = [c \in Slots |-> <<>>]
  /\ outcome = [c \in Slots |-> Pending]
  /\ reqLog = [c \in Slots |-> <<>>]
  /\ sleeps = [c \in Slots |-> <<>>]
  /\ elapsed = [c \in Slots |-> 0]
  /\ lib = NoLib
  /\ timers = [c \in Slots |-> <<>>]

\* ------------------------------------------------------------ constructor
DEFAULT_BASE_URL == <<"https://api.emailverify.ai/v1">>

\* config.baseUrl?.replace(/\/$/, ''): one trailing slash is removed.
StripTrailingSlash(url) ==
  IF url = UndefinedText THEN UndefinedText
  ELSE IF url # <<>> /\ url[Len(url)] = "/" THEN SubSeq(url, 1, Len(url) - 1)
  ELSE url

CtorRejects_MissingOnly(apiKey) == apiKey = Undefined

\* if (!config.apiKey)
CtorRejects(apiKey) == ~TruthyAtom(apiKey)

NewClient(apiKey, baseUrl, timeout, retries) ==
  IF CtorRejects(apiKey)
  THEN [NoClient EXCEPT !.state = "failed",
                        !.error = AuthenticationError(<<"API key is required">>)]
  ELSE [state |-> "ready",
        apiKey |-> apiKey,
        baseUrl |-> IF TruthyText(StripTrailingSlash(baseUrl))
                    THEN StripTrailingSlash(baseUrl) ELSE DEFAULT_BASE_URL,
        timeout |-> IF TruthyNum(timeout) THEN timeout.n ELSE DEFAULT_TIMEOUT,
        retries |-> IF retries = U THEN DEFAULT_RETRIES ELSE retries.n,
        error |-> NoError]

Construct(apiKey, baseUrl, timeout, retries) ==
  /\ client.state = "none"
  /\ client' = NewClient(apiKey, baseUrl, timeout, retries)
  /\ UNCHANGED <<call, pc, stack, outcome, reqLog, sleeps, elapsed, lib, timers>>

\* ---------------------------------------------------------------- request
\* One activation of request(): its attempt argument, where it stands, its
\* abort timer, whether `timeout` ms have passed since its fetch was issued,
\* and the Response it received (status, Retry-After header, body consumed).
\*   "fetch"    awaiting fetch()                                  (line 234)
\*   "errBody"  in handleErrorResponse, awaiting response.json()  (line 284)
\*   "okBody"   awaiting response.json() of a success response    (line 255)
\*   "sleep"    in handleErrorResponse, awaiting sleep()     (lines 309, 321)
\*   "retry"    in handleErrorResponse, awaiting this.request() (lines 310, 322)
NewFrame(attempt) ==
  [attempt |-> attempt, phase |-> "fetch", timer |-> "armed",
   expired |-> FALSE, status |-> 0, header |-> NoHeader, bodyUsed |-> FALSE]

Top(c) == stack[c][Len(stack[c])]
Below(c) == SubSeq(stack[c], 1, Len(stack[c]) - 1)
ReplaceTop(c, f) == Below(c) \o <<f>>

\* The fetch() that request(method, path, body, attempt) issues.
Fetch(method, path, body, attempt) ==
  [method |-> method, url |-> client.baseUrl \o path, body |-> body,
   attempt |-> attempt]

Returned(v) == [ok |-> TRUE, value |-> v, error |-> NoError]
Thrown(e) == [ok |-> FALSE, value |-> JUndefined, error |-> e]

ResponseOk(status) == status >= 200 /\ status <= 299

\* The catch block of request() (lines 256-272).
AbortError == RuntimeError("AbortError", <<"This operation was aborted">>)
NetworkError(e) ==
  EmailVerifyError(<<"Network error: ">> \o e.message, "NETWORK_ERROR", 0,
                   Undefined)
Catch_EveryFailureTimesOut(e, timeout) ==
  IF IsEmailVerifyError(e) THEN e
  ELSE TimeoutError(<<"Request timed out after ">> \o Digits(timeout)
                    \o <<"ms">>)

Catch(e, timeout) ==
  IF IsEmailVerifyError(e) THEN e
  ELSE IF e.name = "AbortError"
  THEN TimeoutError(<<"Request timed out after ">> \o Digits(timeout)
                    \o <<"ms">>)
  ELSE NetworkError(e)

\* response.json(): a body can be consumed once; a second read, and a body
\* that is not JSON (or whose transfer breaks), reject.
ReadJson(bodyUsed, body) ==
  IF bodyUsed
  THEN Thrown(RuntimeError("TypeError", <<"Body is unusable">>))
  ELSE IF body = NotJson
  THEN Thrown(RuntimeError("SyntaxError", <<"Unexpected token">>))
  ELSE Returned(body)

\* handleErrorResponse from line 289 on, errorData being read: what it throws,
\* or the sleep it starts before it calls request() again.
Retry(ms) == [act |-> "retry", ms |-> ms, error |-> NoError]
Throw(e) == [act |-> "throw", ms |-> 0, error |-> e]

RetryAfterOf(header) ==
  ParseInt(IF header.present /\ header.text # <<>>
           THEN header.text ELSE <<"0">>)

\* The requests that the calls 1..n have issued between them.
RECURSIVE RequestsUpTo(_)
RequestsUpTo(n) == IF n = 0 THEN 0 ELSE Len(reqLog[n]) + RequestsUpTo(n - 1)

CanRetry_SharedCounter(attempt, retries) == RequestsUpTo(MaxCalls) < retries

CanRetry_OneMore(attempt, retries) == attempt <= retries

\* attempt < this.retries (lines 308 and 320)
CanRetry(attempt, retries) == attempt < retries

IsInsufficientCredits_Always(code) == TRUE

\* code === 'INSUFFICIENT_CREDITS'
IsInsufficientCredits(code) == code = "INSUFFICIENT_CREDITS"

HandleErrorResponse(status, header, errorData, attempt, retries) ==
  IF errorData.kind = "null"
  THEN Throw(RuntimeError("TypeError",
                          <<"Cannot read properties of null (reading 'error')">>))
  ELSE
  LET error == errorData.error
      message == IF TruthyText(error.message) THEN error.message ELSE StatusText
      code == IF TruthyAtom(error.code) THEN error.code ELSE "UNKNOWN_ERROR"
      retryAfter == RetryAfterOf(header)
  IN CASE status = 401 -> Throw(AuthenticationError(message))
       [] status = 403 ->
            IF IsInsufficientCredits(code)
            THEN Throw(InsufficientCreditsError(message))
            ELSE Throw(EmailVerifyError(message, code, 403, Undefined))
       [] status = 404 -> Throw(NotFoundError(message))
       [] status = 429 ->
            IF CanRetry(attempt, retries)
            THEN Retry((IF TruthyNum(retryAfter) THEN retryAfter.n
                        ELSE Pow2(attempt)) * 1000)
            ELSE Throw(RateLimitError(message, retryAfter))
       [] status = 400 -> Throw(ValidationError(message, error.details))
       [] status \in {500, 502, 503} ->
            IF CanRetry(attempt, retries)
            THEN Retry(Pow2(attempt) * 1000)
            ELSE Throw(EmailVerifyError(message, code, status, Undefined))
       [] OTHER -> Throw(EmailVerifyError(message, code, status, Undefined))

\* An activation that awaits this.request() inside handleErrorResponse gets
\* the result r of the inner activation: a rejection passes through the catch
\* block; a value is dropped by line 248, and the activation goes on to lines
\* 251-255 with the response whose body handleErrorResponse has consumed.
ResumeAfterRetry(frame, r, timeout) ==
  IF ~r.ok THEN Thrown(Catch(r.error, timeout))
  ELSE IF frame.status = 204 THEN Returned(JUndefined)
  ELSE LET again == ReadJson(frame.bodyUsed, NotJson)
       IN IF again.ok THEN again ELSE Thrown(Catch(again.error, timeout))

\* The result of the outermost activation once the innermost one has settled
\* with r: every activation of frames is resumed in turn, innermost first.
RECURSIVE Unwind(_, _, _)
Unwind(frames, r, timeout) ==
  IF frames = <<>> THEN r
  ELSE Unwind(SubSeq(frames, 1, Len(frames) - 1),
              ResumeAfterRetry(frames[Len(frames)], r, timeout), timeout)

\* ------------------------------------------------- the domain methods' end
\* What the domain method does with the result r of its request().
\* waitForBulkJobCompletion reads status.status (line 402), which throws on
\* undefined and null, and sleeps when the job is not finished; deleteWebhook
\* drops the value; the other methods return the promise of request().
JobFinished_CompletedOnly(v) == v.status = "completed"

JobFinished(v) == v.status = "completed" \/ v.status = "failed"

Settle_DropsValue(c, r) ==
  IF ~r.ok THEN Rejected(r.error) ELSE Resolved(JUndefined)

Settle(c, r) ==
  IF ~r.ok THEN Rejected(r.error)
  ELSE CASE call[c].op = "waitForBulkJobCompletion" ->
              IF r.value.kind \in {"undefined", "null"}
              THEN Rejected(RuntimeError("TypeError",
                     <<"Cannot read properties of ">> \o <<r.value.kind>>
                     \o <<" (reading 'status')">>))
              ELSE IF JobFinished(r.value) THEN Resolved(r.value)
              ELSE Pending
         [] call[c].op = "deleteWebhook" -> Resolved(JUndefined)
         [] OTHER -> Resolved(r.value)

\* The outermost request() of call c has settled with r.
Deliver(c, r) ==
  /\ stack' = [stack EXCEPT ![c] = <<>>]
  /\ outcome' = [outcome EXCEPT ![c] = Settle(c, r)]
  /\ pc' = [pc EXCEPT ![c] =
              IF Settle(c, r) = Pending THEN "pollSleep" ELSE "done"]

\* The innermost activation of call c has settled with r.
Finish(c, r) == Deliver(c, Unwind(Below(c), r, client.timeout))

\* Time passing while call c waits for a bulk job (Date.now() is read by
\* waitForBulkJobCompletion only); the clock saturates at MaxClock.
Advance(c, ms) ==
  elapsed' = [elapsed EXCEPT ![c] =
                IF call[c].op = "waitForBulkJobCompletion" /\ ms > 0
                THEN Min(@ + ms, MaxClock) ELSE @]

\* ------------------------------------------------------- the abort timers
\* The timer that setTimeout arms for an attempt (line 231) is "armed" until
\* it is cleared or fires.  clearTimeout leaves a timer that is no longer
\* armed as it is.
ClearTimeout(t) == IF t = "armed" THEN "cleared" ELSE t

ClearTimeoutOnCatch_Missing(t) == t

\* clearTimeout(timeoutId) of the catch block (line 257)
ClearTimeoutOnCatch(t) == ClearTimeout(t)

\* The timer of the innermost activation, the last one armed, becomes t.
SetLastTimer(ts, t) == [ts EXCEPT ![Len(ts)] = t]
LastTimer(ts) == ts[Len(ts)]

\* A rejection passes through the catch block of every activation of the
\* call, each clearing its own timer.
AfterCatch(ts) == [i \in DOMAIN ts |-> ClearTimeoutOnCatch(ts[i])]

\* --------------------------------------------------- steps of one request
\* fetch() resolves with a response (lines 234-253).
Respond(c, status, header) ==
  /\ pc[c] = "request"
  /\ Top(c).phase = "fetch"
  /\ LET f == [Top(c) EXCEPT !.timer = "cleared", !.status = status,
                             !.header = header]
     IN IF ~ResponseOk(status)
        THEN /\ stack' = [stack EXCEPT ![c] =
                            ReplaceTop(c, [f EXCEPT !.phase = "errBody"])]
             /\ UNCHANGED <<outcome, pc>>
        ELSE IF status = 204
        THEN Finish(c, Returned(JUndefined))
        ELSE /\ stack' = [stack EXCEPT ![c] =
                            ReplaceTop(c, [f EXCEPT !.phase = "okBody"])]
             /\ UNCHANGED <<outcome, pc>>
  /\ timers' = [timers EXCEPT
                  ![c] = SetLastTimer(@, ClearTimeout(LastTimer(@)))]
  /\ UNCHANGED <<client, call, reqLog, sleeps, elapsed, lib>>

\* fetch() rejects for a reason other than the abort (lines 256-272).
TransportFailure(c) ==
  /\ pc[c] = "request"
  /\ Top(c).phase = "fetch"
  /\ Finish(c, Thrown(Catch(RuntimeError("TypeError", <<"fetch failed">>),
                            client.timeout)))
  /\ timers' = [timers EXCEPT ![c] = AfterCatch(@)]
  /\ UNCHANGED <<client, call, reqLog, sleeps, elapsed, lib>>

InFlight(f) == f.phase \in {"fetch", "errBody", "okBody"}

\* `timeout` ms have passed since the fetch of the innermost activation was
\* issued and its HTTP exchange is not over.  An armed timer fires and aborts
\* the fetch (line 231), which rejects with an AbortError; a cleared timer
\* does nothing.
TimeoutElapses(c) ==
  /\ pc[c] = "request"
  /\ InFlight(Top(c))
  /\ ~Top(c).expired
  /\ IF Top(c).timer = "armed"
     THEN Finish(c, Thrown(Catch(AbortError, client.timeout)))
     ELSE /\ stack' = [stack EXCEPT ![c] =
                         ReplaceTop(c, [Top(c) EXCEPT !.expired = TRUE])]
          /\ UNCHANGED <<outcome, pc>>
  /\ timers' = [timers EXCEPT
                  ![c] = IF Top(c).timer = "armed"
                         THEN AfterCatch(SetLastTimer(@, "fired")) ELSE @]
  /\ Advance(c, client.timeout)
  /\ UNCHANGED <<client, call, reqLog, sleeps, lib>>

\* The body of a success response has been read (line 255).
SuccessBody(c, body) ==
  /\ pc[c] = "request"
  /\ Top(c).phase = "okBody"
  /\ LET read == ReadJson(Top(c).bodyUsed, body)
         r == IF read.ok THEN read
              ELSE Thrown(Catch(read.error, client.timeout))
     IN /\ Finish(c, r)
        /\ timers' = [timers EXCEPT
                        ![c] = IF Unwind(Below(c), r, client.timeout).ok
                               THEN @ ELSE AfterCatch(@)]
  /\ UNCHANGED <<client, call, reqLog, sleeps, elapsed, lib>>

\* The body of an error response has been read (lines 282-328): a body that
\* is not JSON leaves errorData = {}.
ErrorBody(c, body) ==
  /\ pc[c] = "request"
  /\ Top(c).phase = "errBody"
  /\ LET read == ReadJson(Top(c).bodyUsed, body)
         errorData == IF read.ok THEN read.value
                      ELSE JObject(Undefined, NoApiError)
         h == HandleErrorResponse(Top(c).status, Top(c).header, errorData,
                                  Top(c).attempt, client.retries)
     IN IF h.act = "retry"
        THEN /\ stack' = [stack EXCEPT ![c] =
                            ReplaceTop(c, [Top(c) EXCEPT !.phase = "sleep",
                                                         !.header = NoHeader,
                                                         !.bodyUsed = TRUE])]
             /\ sleeps' = [sleeps EXCEPT ![c] = Append(@, h.ms)]
             /\ UNCHANGED <<outcome, pc, timers>>
        ELSE /\ Finish(c, Thrown(Catch(h.error, client.timeout)))
             /\ timers' = [timers EXCEPT ![c] = AfterCatch(@)]
             /\ UNCHANGED sleeps
  /\ UNCHANGED <<client, call, reqLog, elapsed, lib>>

\* The backoff sleep is over: request() is called with attempt + 1
\* (lines 310, 322 and 229-243).
BackoffOver(c) ==
  /\ pc[c] = "request"
  /\ Top(c).phase = "sleep"
  /\ stack' = [stack EXCEPT ![c] =
                 ReplaceTop(c, [Top(c) EXCEPT !.phase = "retry"])
                 \o <<NewFrame(Top(c).attempt + 1)>>]
  /\ reqLog' = [reqLog EXCEPT ![c] = Append(@, Fetch(call[c].method, call[c].path, call[c].body,
                                      Top(c).attempt + 1))]
  /\ timers' = [timers EXCEPT ![c] = Append(@, "armed")]
  /\ Advance(c, sleeps[c][Len(sleeps[c])])
  /\ UNCHANGED <<client, call, pc, outcome, sleeps, lib>>

\* ------------------------------------------------------- domain methods
\* A domain method calls this.request(method, path, body): attempt is 1.
Invoke(c, op, method, path, body, emails, pollInterval, maxWait) ==
  /\ client.state = "ready"
  /\ pc[c] = "idle"
  /\ call' = [call EXCEPT ![c] =
                [op |-> op, method |-> method, path |-> path, body |-> body,
                 emails |-> emails, pollInterval |-> pollInterval,
                 maxWait |-> maxWait]]
  /\ pc' = [pc EXCEPT ![c] = "request"]
  /\ stack' = [stack EXCEPT ![c] = <<NewFrame(1)>>]
  /\ reqLog' = [reqLog EXCEPT ![c] = Append(@, Fetch(method, path, body, 1))]
  /\ timers' = [timers EXCEPT ![c] = Append(@, "armed")]
  /\ UNCHANGED <<client, outcome, sleeps, elapsed, lib>>

\* A domain method throws before it calls request().
Refuse(c, op, emails, pollInterval, maxWait, error) ==
  /\ client.state = "ready"
  /\ pc[c] = "idle"
  /\ call' = [call EXCEPT ![c] =
                [NoCall EXCEPT !.op = op, !.emails = emails,
                               !.pollInterval = pollInterval,
                               !.maxWait = maxWait]]
  /\ pc' = [pc EXCEPT ![c] = "done"]
  /\ outcome' = [outcome EXCEPT ![c] = Rejected(error)]
  /\ UNCHANGED <<client, stack, reqLog, sleeps, elapsed, lib, timers>>

Verify(c) ==
  Invoke(c, "verify", "POST", <<"/verify">>, "verify", 0, 0, 0)

TooManyEmails_OffByOne(n) == n >= MAX_BULK_EMAILS

TooManyEmails(n) == n > MAX_BULK_EMAILS

VerifyBulk(c, n) ==
  IF TooManyEmails(n)
  THEN Refuse(c, "verifyBulk", n, 0, 0,
              ValidationError(<<"Maximum 10,000 emails per bulk job">>,
                              Undefined))
  ELSE Invoke(c, "verifyBulk", "POST", <<"/verify/bulk">>, "emails", n, 0, 0)

BulkJobPath(jobId) == <<"/verify/bulk/", jobId>>

GetBulkJobStatus(c) ==
  Invoke(c, "getBulkJobStatus", "GET", BulkJobPath(JobId), Undefined, 0, 0, 0)

\* URLSearchParams: the parameters in the order they were set, joined by "&".
RECURSIVE JoinParams(_)
JoinParams(params) ==
  IF params = <<>> THEN <<>>
  ELSE IF Len(params) = 1 THEN Head(params)
  ELSE Head(params) \o <<"&">> \o JoinParams(Tail(params))

ResultsQuery_OffsetTruthy(limit, offset, status) ==
  JoinParams(
    (IF TruthyNum(limit) THEN <<(<<"limit", "=">> \o Digits(limit.n))>>
     ELSE <<>>)
    \o (IF TruthyNum(offset) THEN <<(<<"offset", "=">> \o Digits(offset.n))>>
        ELSE <<>>)
    \o (IF TruthyAtom(status) THEN <<(<<"status", "=", status>>)>> ELSE <<>>))

ResultsQuery(limit, offset, status) ==
  JoinParams(
    (IF TruthyNum(limit) THEN <<(<<"limit", "=">> \o Digits(limit.n))>>
     ELSE <<>>)
    \o (IF offset # U THEN <<(<<"offset", "=">> \o Digits(offset.n))>>
        ELSE <<>>)
    \o (IF TruthyAtom(status) THEN <<(<<"status", "=", status>>)>> ELSE <<>>))

ResultsPath(jobId, limit, offset, status) ==
  LET query == ResultsQuery(limit, offset, status)
  IN BulkJobPath(jobId) \o <<"/results">>
     \o (IF query # <<>> THEN <<"?">> \o query ELSE <<>>)

GetBulkJobResults(c, limit, offset, status) ==
  Invoke(c, "getBulkJobResults", "GET",
         ResultsPath(JobId, limit, offset, status), Undefined, 0, 0, 0)

WaitTimeout(jobId, maxWait) ==
  TimeoutError(<<"Bulk job ", jobId, " did not complete within ">>
               \o Digits(maxWait) \o <<"ms">>)

KeepWaiting_OffByOne(now, maxWait) == now <= maxWait

\* The loop test of waitForBulkJobCompletion (line 399).
KeepWaiting(now, maxWait) == now < maxWait

WaitForBulkJobCompletion(c, pollInterval, maxWait) ==
  IF KeepWaiting(0, maxWait)
  THEN Invoke(c, "waitForBulkJobCompletion", "GET", BulkJobPath(JobId),
              Undefined, 0, pollInterval, maxWait)
  ELSE Refuse(c, "waitForBulkJobCompletion", 0, pollInterval, maxWait,
              WaitTimeout(JobId, maxWait))

\* sleep(pollInterval) is over (line 406): the loop test, then the next poll
\* or the TimeoutError of line 409.
PollAgain(c) ==
  /\ pc[c] = "pollSleep"
  /\ LET now == Min(elapsed[c] + call[c].pollInterval, MaxClock)
     IN /\ elapsed' = [elapsed EXCEPT ![c] = now]
        /\ IF KeepWaiting(now, call[c].maxWait)
           THEN /\ pc' = [pc EXCEPT ![c] = "request"]
                /\ stack' = [stack EXCEPT ![c] = <<NewFrame(1)>>]
                /\ reqLog' = [reqLog EXCEPT ![c] =
                                Append(@, Fetch(call[c].method, call[c].path,
                                                call[c].body, 1))]
                /\ timers' = [timers EXCEPT ![c] = Append(@, "armed")]
                /\ UNCHANGED outcome
           ELSE /\ pc' = [pc EXCEPT ![c] = "done"]
                /\ outcome' = [outcome EXCEPT ![c] =
                                 Rejected(WaitTimeout(JobId, call[c].maxWait))]
                /\ UNCHANGED <<stack, reqLog, timers>>
  /\ sleeps' = [sleeps EXCEPT ![c] = Append(@, call[c].pollInterval)]
  /\ UNCHANGED <<client, call, lib>>

GetCredits(c) ==
  Invoke(c, "getCredits", "GET", <<"/credits">>, Undefined, 0, 0, 0)

CreateWebhook(c) ==
  Invoke(c, "createWebhook", "POST", <<"/webhooks">>, "config", 0, 0, 0)

ListWebhooks(c) ==
  Invoke(c, "listWebhooks", "GET", <<"/webhooks">>, Undefined, 0, 0, 0)

DeleteWebhook(c) ==
  Invoke(c, "deleteWebhook", "DELETE", <<"/webhooks/", WebhookId>>, Undefined,
         0, 0, 0)

\* ------------------------------------------------ verifyWebhookSignature
\* Strings are sequences of characters; Buffer.from(string) encodes them as
\* UTF-8: one byte for an ASCII character, two for "U+00E9" (e acute).
HexChar ==
  <<"0", "1", "2", "3", "4", "5", "6", "7", "8", "9",
    "a", "b", "c", "d", "e", "f">>
LowerChar ==
  <<"a", "b", "c", "d", "e", "f", "g", "h", "i", "j", "k", "l", "m",
    "n", "o", "p", "q", "r", "s", "t", "u", "v", "w", "x", "y", "z">>

Utf8(ch) ==
  IF IsDigit(ch) THEN <<48 + DigitVal(ch)>>
  ELSE IF \E i \in 1..26 : LowerChar[i] = ch
  THEN <<96 + (CHOOSE i \in 1..26 : LowerChar[i] = ch)>>
  ELSE IF ch = "=" THEN <<61>>
  ELSE <<195, 169>>

\* Buffer.from(str)
RECURSIVE ToBytes(_)
ToBytes(str) ==
  IF str = <<>> THEN <<>> ELSE Utf8(Head(str)) \o ToBytes(Tail(str))

\* The length of an HMAC digest in hex digits.
DigestLen == 4

RECURSIVE Pow16(_)
Pow16(k) == IF k <= 0 THEN 1 ELSE 16 * Pow16(k - 1)

\* digest('hex'): len lowercase hex digits.
RECURSIVE ToHex(_, _)
ToHex(n, len) ==
  IF len = 0 THEN <<>>
  ELSE ToHex(n \div 16, len - 1) \o <<HexChar[(n % 16) + 1]>>

RECURSIVE Mix(_)
Mix(bytes) ==
  IF bytes = <<>> THEN 0
  ELSE Mix(SubSeq(bytes, 1, Len(bytes) - 1)) + Len(bytes) * bytes[Len(bytes)]

\* crypto.createHmac('sha256', secret).update(payload).digest('hex'): the
\* keyed hash of Node's crypto module, of which verifyWebhookSignature uses
\* that it is a function of the key and the message whose value is a fixed
\* number of lowercase hex digits.
Hmac(secret, payload) ==
  ToHex((Mix(ToBytes(secret)) * 31 + Mix(ToBytes(payload)) * 17
         + Len(payload) + 7) % Pow16(DigestLen), DigestLen)

ExpectedSignature_NoPrefix(payload, secret) == Hmac(secret, payload)

\* `sha256=${...}` (lines 449-452)
ExpectedSignature(payload, secret) ==
  <<"s", "h", "a", "2", "5", "6", "=">> \o Hmac(secret, payload)

\* crypto.timingSafeEqual(a, b) throws a RangeError when the byte lengths
\* differ.
TimingSafeEqual(a, b) ==
  IF Len(a) # Len(b) THEN "throw"
  ELSE IF a = b THEN "true" ELSE "false"

VerifyWebhookSignatureResult_NoLengthCheck(payload, signature, secret) ==
  TimingSafeEqual(ToBytes(signature),
                  ToBytes(ExpectedSignature(payload, secret)))

\* The value of verifyWebhookSignature(payload, signature, secret):
\* "true", "false", or "throw" when it throws (lines 443-459).
VerifyWebhookSignatureResult(payload, signature, secret) ==
  LET expectedSignature == ExpectedSignature(payload, secret)
      signatureBuffer == ToBytes(signature)
      expectedBuffer == ToBytes(expectedSignature)
  IN IF Len(signatureBuffer) # Len(expectedBuffer) THEN "false"
     ELSE TimingSafeEqual(signatureBuffer, expectedBuffer)

VerifyWebhookSignature(payload, signature, secret) ==
  /\ client.state = "ready"
  /\ lib' = [NoLib EXCEPT
               !.op = "verifyWebhookSignature",
               !.payload = payload, !.signature = signature,
               !.secret = secret,
               !.result = VerifyWebhookSignatureResult(payload, signature,
                                                       secret)]
  /\ UNCHANGED <<client, call, pc, stack, outcome, reqLog, sleeps, elapsed,
                 timers>>

\* The payloads, secrets and signatures handed to verifyWebhookSignature:
\* every signature is the right one of a payload and a secret, or differs
\* from it in its last character, in its length, by its prefix, or by a
\* character of two bytes.
Payloads == {<<>>, <<"a", "b">>}
Secrets == {<<>>, <<"k">>}
NextHex(ch) ==
  HexChar[((CHOOSE i \in 1..16 : HexChar[i] = ch) % 16) + 1]
VariantsOf(sig) ==
  {sig,
   SubSeq(sig, 1, Len(sig) - 1) \o <<NextHex(sig[Len(sig)])>>,
   SubSeq(sig, 1, Len(sig) - 1),
   sig \o <<"0">>,
   SubSeq(sig, 8, Len(sig)),
   <<"U+00E9">> \o SubSeq(sig, 3, Len(sig)),
   SubSeq(sig, 1, Len(sig) - 1) \o <<"U+00E9">>}
Signatures ==
  {<<>>}
  \cup VariantsOf(<<"s", "h", "a", "2", "5", "6", "=">> \o Hmac(<<>>, <<>>))
  \cup VariantsOf(<<"s", "h", "a", "2", "5", "6", "=">>
                  \o Hmac(<<"k">>, <<"a", "b">>))

\* --------------------------------------------------- the error classes
\* new <variant>(message, ...): the arguments a variant does not take are
\* ignored.
NewError(variant, message, retryAfter, details) ==
  CASE variant = "AuthenticationError" -> AuthenticationError(message)
    [] variant = "RateLimitError" -> RateLimitError(message, retryAfter)
    [] variant = "ValidationError" -> ValidationError(message, details)
    [] variant = "InsufficientCreditsError" -> InsufficientCreditsError(message)
    [] variant = "NotFoundError" -> NotFoundError(message)
    [] variant = "TimeoutError" -> TimeoutError(message)

ConstructError(variant, message, retryAfter, details) ==
  /\ lib' = [NoLib EXCEPT
               !.op = "newError", !.variant = variant, !.message = message,
               !.retryAfter = retryAfter, !.details = details,
               !.error = NewError(variant, message, retryAfter, details)]
  /\ UNCHANGED <<client, call, pc, stack, outcome, reqLog, sleeps, elapsed,
                 timers>>

Variants ==
  {"AuthenticationError", "RateLimitError", "ValidationError",
   "InsufficientCreditsError", "NotFoundError", "TimeoutError"}
Messages == {UndefinedText, <<>>, <<"m">>}
RetryAfters == {U, N(0), N(5)}
Details == {Undefined, "d"}
\* The arguments of the constructors: retryAfter is an argument of
\* RateLimitError only, details of ValidationError only, and ValidationError
\* has no default message.
ErrorArgs ==
  {a \in [variant : Variants, message : Messages, retryAfter : RetryAfters,
          details : Details] :
     /\ a.variant # "RateLimitError" => a.retryAfter = U
     /\ a.variant # "ValidationError" => a.details = Undefined
     /\ a.variant = "ValidationError" => a.message # UndefinedText}

\* ------------------------------------- the calls that issue no request
\* The options of getBulkJobResults in full.
AllLimits == {U, N(0), N(10)}
AllOffsets == {U, N(0), N(5)}
AllResultStatuses == {Undefined, "", "valid"}

LibConfigs == {cfg \in Configs : cfg.timeout = U /\ cfg.retries \in {U, N(1)}}

\* Construction, the path and query of getBulkJobResults, the error classes
\* and verifyWebhookSignature.
NextLib ==
  \/ \E cfg \in LibConfigs :
       Construct(cfg.apiKey, cfg.baseUrl, cfg.timeout, cfg.retries)
  \/ \E c \in Calls, l \in AllLimits, o \in AllOffsets,
        s \in AllResultStatuses : GetBulkJobResults(c, l, o, s)
  \/ \E a \in ErrorArgs :
       ConstructError(a.variant, a.message, a.retryAfter, a.details)
  \/ \E p \in Payloads, sig \in Signatures, k \in Secrets :
       VerifyWebhookSignature(p, sig, k)

SpecLib == Init /\ [][NextLib]_vars

\* ------------------------------------------------------ concurrent calls
\* Several calls of getCredits in progress on the one client at a time, each
\* answered by a success, by an error that is final, by an error that is
\* retried, or not at all.
ConcConfigs ==
  {cfg \in Configs :
     /\ cfg.apiKey = "key"
     /\ cfg.baseUrl = UndefinedText
     /\ cfg.timeout = U
     /\ cfg.retries \in {N(1), N(2)}}
ConcStatuses == {200, 401, 503}
ConcBody == JObject(Undefined, NoApiError)

NextConc ==
  \/ \E cfg \in ConcConfigs :
       Construct(cfg.apiKey, cfg.baseUrl, cfg.timeout, cfg.retries)
  \/ \E c \in Slots : GetCredits(c)
  \/ \E c \in Slots, st \in ConcStatuses : Respond(c, st, NoHeader)
  \/ \E c \in Slots : TransportFailure(c)
  \/ \E c \in Slots : SuccessBody(c, ConcBody)
  \/ \E c \in Slots : ErrorBody(c, ConcBody)
  \/ \E c \in Slots : BackoffOver(c)

SpecConc == Init /\ [][NextConc]_vars

\* ------------------------------------------------------------- liveness
\* One call of getCredits from its first fetch to its end, with every answer
\* of the server.  The timers of the runtime fire: the abort timer of an
\* attempt (line 231) and the timer of a backoff sleep (line 332).  Nothing
\* makes the server answer, or go on with a body it has begun to send.
LiveConfigs ==
  {cfg \in Configs :
     cfg.apiKey = "key" /\ cfg.baseUrl = UndefinedText /\ cfg.timeout = U}

NextLive ==
  \/ \E cfg \in LiveConfigs :
       Construct(cfg.apiKey, cfg.baseUrl, cfg.timeout, cfg.retries)
  \/ \E c \in Calls : GetCredits(c)
  \/ \E c \in Calls, st \in Statuses :
       \E h \in HeadersOf(st) : Respond(c, st, h)
  \/ \E c \in Calls : TransportFailure(c)
  \/ \E c \in Calls : TimeoutElapses(c)
  \/ \E c \in Calls, b \in SuccessBodies : SuccessBody(c, b)
  \/ \E c \in Calls, b \in ErrorBodies : ErrorBody(c, b)
  \/ \E c \in Calls : BackoffOver(c)

TimersFire ==
  \A c \in Calls : WF_vars(TimeoutElapses(c)) /\ WF_vars(BackoffOver(c))

SpecLive == Init /\ [][NextLive]_vars /\ TimersFire

\* ---------------------------------------------------------- specification
Next ==
  \/ \E cfg \in Configs :
       Construct(cfg.apiKey, cfg.baseUrl, cfg.timeout, cfg.retries)
  \/ \E c \in Calls : Verify(c)
  \/ \E c \in Calls, n \in EmailCounts : VerifyBulk(c, n)
  \/ \E c \in Calls : GetBulkJobStatus(c)
  \/ \E c \in Calls, l \in Limits, o \in Offsets, s \in ResultStatuses :
       GetBulkJobResults(c, l, o, s)
  \/ \E c \in Calls, p \in PollIntervals, m \in MaxWaits :
       WaitForBulkJobCompletion(c, p, m)
  \/ \E c \in Calls : PollAgain(c)
  \/ \E c \in Calls : GetCredits(c)
  \/ \E c \in Calls : CreateWebhook(c)
  \/ \E c \in Calls : ListWebhooks(c)
  \/ \E c \in Calls : DeleteWebhook(c)
  \/ \E c \in Calls, st \in Statuses :
       \E h \in HeadersOf(st) : Respond(c, st, h)
  \/ \E c \in Calls : TransportFailure(c)
  \/ \E c \in Calls : TimeoutElapses(c)
  \/ \E c \in Calls, b \in SuccessBodies : SuccessBody(c, b)
  \/ \E c \in Calls, b \in ErrorBodies : ErrorBody(c, b)
  \/ \E c \in Calls : BackoffOver(c)

Spec == Init /\ [][Next]_vars

\* ============================================================== properties
Transient == {429, 500, 502, 503}

\* The domain methods that hand the promise of one request() to the caller.
SingleRequest(c) ==
  call[c].op \notin {"none", "waitForBulkJobCompletion", "deleteWebhook"}

\* Every response the activations of call c have received has status st.
AllAnswered(c, st) == \A i \in 1..Len(stack[c]) : stack[c][i].status = st

\* What the server sent as error code and message, when it sent them.
CarriesServerText(e, body) ==
  /\ TruthyText(body.error.message) => e.message = body.error.message
  /\ ~TruthyText(body.error.message) => e.message = StatusText
CarriesServerCode(e, body) ==
  TruthyAtom(body.error.code) => e.code = body.error.code

\* C1: when an attempt is re-issued after a 429/500/502/503 response, the
\* outcome of the re-issued call is the outcome of the logical call: the
\* parsed body of its 2xx response, or the failure it ends with.
C1_RetriedOutcomeIsCallOutcome ==
  [][\A c \in Calls :
       (pc[c] = "request" /\ Len(stack[c]) > 1 /\ SingleRequest(c)) =>
         /\ \A b \in SuccessBodies \ {NotJson} :
              SuccessBody(c, b) => outcome'[c] = Resolved(b)
         /\ \A b \in ErrorBodies :
              (ErrorBody(c, b) /\ pc'[c] = "done" /\ b.kind = "object") =>
                outcome'[c].state = "rejected"]_vars

\* C2: with retries = N >= 1 and every attempt answered by the same transient
\* status, an attempt before the N-th is followed by a backoff and a further
\* request, and the N-th ends the call with the final error of that status:
\* N requests, and no sleep when N = 1.
C2_ExactlyNRequests ==
  [][\A c \in Calls, st \in Transient, b \in ErrorBodies :
       (/\ client.retries >= 1
        /\ SingleRequest(c)
        /\ pc[c] = "request"
        /\ AllAnswered(c, st)
        /\ ErrorBody(c, b)) =>
         IF Len(reqLog[c]) < client.retries
         THEN /\ outcome'[c] = Pending
              /\ stack'[c][Len(stack'[c])].phase = "sleep"
              /\ Len(sleeps'[c]) = Len(reqLog[c])
         ELSE /\ Len(reqLog'[c]) = client.retries
              /\ outcome'[c].state = "rejected"
              /\ outcome'[c].error.statusCode = st
              /\ outcome'[c].error.name =
                   (IF st = 429 THEN "RateLimitError" ELSE "EmailVerifyError")
              /\ client.retries = 1 => sleeps'[c] = <<>>]_vars

\* C3: a 401, 403, 404 or 400 response whose body is a JSON object ends the
\* call with no further request and no sleep, with the error kind of its
\* status (403: InsufficientCreditsError exactly when the server code is
\* INSUFFICIENT_CREDITS, else the base error with the server code), the
\* server's message and, for 400, the server's details.
C3_StatusMapping ==
  [][\A c \in Calls :
       (/\ pc[c] = "request"
        /\ Top(c).phase = "errBody"
        /\ Top(c).status \in {401, 403, 404, 400}) =>
       \A b \in {x \in ErrorBodies : x.kind = "object"} :
         ErrorBody(c, b) =>
         LET e == outcome'[c].error
             st == Top(c).status
         IN /\ pc'[c] = "done"
            /\ outcome'[c].state = "rejected"
            /\ reqLog'[c] = reqLog[c]
            /\ sleeps'[c] = sleeps[c]
            /\ (SingleRequest(c) /\ Len(stack[c]) = 1) =>
                 (Len(reqLog'[c]) = 1 /\ sleeps'[c] = <<>>)
            /\ e.statusCode = st
            /\ CarriesServerText(e, b)
            /\ st = 401 =>
                 (e.name = "AuthenticationError" /\ e.code = "INVALID_API_KEY")
            /\ st = 404 => (e.name = "NotFoundError" /\ e.code = "NOT_FOUND")
            /\ st = 400 =>
                 /\ e.name = "ValidationError"
                 /\ e.code = "INVALID_REQUEST"
                 /\ e.details = b.error.details
            /\ st = 403 =>
                 /\ (e.name = "InsufficientCreditsError")
                      <=> (b.error.code = "INSUFFICIENT_CREDITS")
                 /\ e.name \in {"InsufficientCreditsError", "EmailVerifyError"}
                 /\ e.name = "InsufficientCreditsError" =>
                      e.code = "INSUFFICIENT_CREDITS"
                 /\ e.name = "EmailVerifyError" => CarriesServerCode(e, b)]_vars

C3_Witness ==
  \E c \in Calls :
    /\ outcome[c].state = "rejected"
    /\ outcome[c].error.name = "InsufficientCreditsError"
    /\ outcome[c].error.message = <<"server message">>
    /\ Len(reqLog[c]) = 1
    /\ sleeps[c] = <<>>

\* The number of seconds a Retry-After header states: the integer it starts
\* with, 0 when it is missing or is no number.
SecondsOf(header) ==
  IF header.present /\ ParseInt(header.text).t = "num"
  THEN ParseInt(header.text) ELSE N(0)

\* C4: a 429 response on an attempt that is not retried rejects with a
\* RateLimitError whose retryAfter is the number of seconds of the
\* Retry-After header, 0 when the header is missing or is no number.
C4_RetryAfterOfRateLimit ==
  [][\A c \in Calls, b \in ErrorBodies :
       (/\ pc[c] = "request"
        /\ Top(c).status = 429
        /\ Top(c).attempt >= client.retries
        /\ b.kind = "object"
        /\ ErrorBody(c, b)) =>
         /\ outcome'[c].state = "rejected"
         /\ outcome'[c].error.name = "RateLimitError"
         /\ outcome'[c].error.retryAfter = SecondsOf(Top(c).header)]_vars

\* The statuses that handleErrorResponse names; any other non-2xx status
\* takes its default branch.
NamedStatuses == {401, 403, 404, 429, 400, 500, 502, 503}

\* C5: a further fetch of a logical call is issued only after a response with
\* status 429, 500, 502 or 503; a timeout, a transport failure, a body that
\* does not parse and a response with any other non-2xx status end the call
\* at once without a further request, such a status giving the base error
\* with the server code, the server message and that status.
C5_OnlyTransientRetried ==
  [][\A c \in Calls :
       pc[c] = "request" =>
         /\ Len(reqLog'[c]) > Len(reqLog[c]) =>
              (Top(c).phase = "sleep" /\ Top(c).status \in Transient)
         /\ (\/ TransportFailure(c)
             \/ (Top(c).timer = "armed" /\ TimeoutElapses(c))
             \/ SuccessBody(c, NotJson)) =>
              (pc'[c] = "done" /\ outcome'[c].state = "rejected"
               /\ reqLog'[c] = reqLog[c])
         /\ \A b \in ErrorBodies :
              (/\ ~ResponseOk(Top(c).status)
               /\ Top(c).status \notin NamedStatuses
               /\ ErrorBody(c, b)) =>
                /\ pc'[c] = "done"
                /\ reqLog'[c] = reqLog[c]
                /\ outcome'[c].state = "rejected"
                /\ outcome'[c].error.name = "EmailVerifyError"
                /\ outcome'[c].error.statusCode = Top(c).status
                /\ CarriesServerCode(outcome'[c].error, b)
                /\ CarriesServerText(outcome'[c].error, b)]_vars

\* C6: no attempt is still in flight (awaiting the response or reading the
\* body) once `timeout` ms have passed since its fetch was issued: by then
\* it has been cancelled and the call has rejected with a TimeoutError.
C6_TimeoutBoundsEveryAttempt ==
  \A c \in Calls :
    /\ pc[c] = "request" => ~(InFlight(Top(c)) /\ Top(c).expired)
    /\ (outcome[c].state = "rejected" /\ outcome[c].error.code = "TIMEOUT")
         => outcome[c].error.statusCode = 504

IsNetworkError(e) ==
  e.name = "EmailVerifyError" /\ e.code = "NETWORK_ERROR" /\ e.statusCode = 0

\* C7: a transport failure of fetch that is no timeout cancellation, and a
\* 2xx (non-204) body that does not parse as JSON, reject the call with the
\* base error of code NETWORK_ERROR and status 0.
C7_NetworkError ==
  [][\A c \in Calls :
       (/\ pc[c] = "request"
        /\ Top(c).phase \in {"fetch", "okBody"}
        /\ (TransportFailure(c) \/ SuccessBody(c, NotJson)))
         => /\ pc'[c] = "done"
            /\ outcome'[c].state = "rejected"
            /\ IsNetworkError(outcome'[c].error)]_vars

C7_Witness ==
  \E c \in Calls :
    /\ outcome[c].state = "rejected"
    /\ IsNetworkError(outcome[c].error)
    /\ outcome[c].error.message = <<"Network error: ", "Unexpected token">>
    /\ Len(reqLog[c]) > 1

\* C8: whenever a domain method rejects, it rejects with an EmailVerifyError
\* or one of its variants.
C8_OnlyTaxonomyErrors ==
  \A c \in Calls :
    outcome[c].state = "rejected" => IsEmailVerifyError(outcome[c].error)

\* C9: the constructor fails with an AuthenticationError (INVALID_API_KEY,
\* 401) and yields no client when the API key is empty or missing, and yields
\* a client holding the key for every other key.
C9_ApiKeyRequired ==
  [][client.state = "none" =>
     \A cfg \in Configs :
       Construct(cfg.apiKey, cfg.baseUrl, cfg.timeout, cfg.retries) =>
         IF cfg.apiKey = Undefined \/ cfg.apiKey = ""
         THEN /\ client'.state = "failed"
              /\ client'.error.name = "AuthenticationError"
              /\ client'.error.code = "INVALID_API_KEY"
              /\ client'.error.statusCode = 401
         ELSE /\ client'.state = "ready"
              /\ client'.apiKey = cfg.apiKey
              /\ client'.error = NoError]_vars

C9_Witness ==
  /\ client.state = "failed"
  /\ client.error.name = "AuthenticationError"
  /\ client.error.statusCode = 401
  /\ \A c \in Calls : pc[c] = "idle"

LocalBulkError(e) ==
  e.name = "ValidationError"
  /\ e.message = <<"Maximum 10,000 emails per bulk job">>

\* C10: verifyBulk with more than 10000 emails rejects with a ValidationError
\* and issues no fetch; with 10000 emails or fewer it raises no such error and
\* its first fetch is POST /verify/bulk.
C10_BulkLimit ==
  \A c \in Calls :
    call[c].op = "verifyBulk" =>
      IF call[c].emails > 10000
      THEN /\ outcome[c].state = "rejected"
           /\ LocalBulkError(outcome[c].error)
           /\ reqLog[c] = <<>>
      ELSE /\ ~LocalBulkError(outcome[c].error)
           /\ Len(reqLog[c]) >= 1
           /\ reqLog[c][1].method = "POST"
           /\ reqLog[c][1].url = client.baseUrl \o <<"/verify/bulk">>

C10_Witness ==
  \E c \in Calls :
    /\ call[c].op = "verifyBulk"
    /\ call[c].emails = 10001
    /\ outcome[c].state = "rejected"
    /\ outcome[c].error.name = "ValidationError"
    /\ reqLog[c] = <<>>

Waiting(c) == call[c].op = "waitForBulkJobCompletion"

\* The poll of a waiting call whose first fetch is answered by a success
\* response: getBulkJobStatus resolves with the body that is read.
PollAnswered(c) ==
  /\ Waiting(c)
  /\ pc[c] = "request"
  /\ Len(stack[c]) = 1
  /\ Top(c).phase = "okBody"

\* C11: waitForBulkJobCompletion returns the snapshot of the first poll that
\* observes completed or failed, and issues no request and performs no sleep
\* after it; a poll that observes pending or processing is followed by a
\* sleep of pollInterval, after which the loop goes on (the next poll, or
\* the end of the wait).
C11_ReturnsAtFirstTerminalPoll ==
  [][\A c \in Calls :
       /\ PollAnswered(c) =>
            \A b \in SuccessBodies :
              SuccessBody(c, b) =>
                /\ b.status \in {"completed", "failed"} =>
                     (outcome'[c] = Resolved(b) /\ pc'[c] = "done")
                /\ b.status \in {"pending", "processing"} =>
                     (outcome'[c] = Pending /\ pc'[c] = "pollSleep"
                      /\ reqLog'[c] = reqLog[c])
       /\ (Waiting(c) /\ pc[c] = "pollSleep") =>
            /\ sleeps'[c] = Append(sleeps[c], call[c].pollInterval)
            /\ \/ pc'[c] = "request" /\ Len(reqLog'[c]) = Len(reqLog[c]) + 1
               \/ pc'[c] = "done" /\ reqLog'[c] = reqLog[c]
       /\ (Waiting(c) /\ pc[c] = "done") =>
            (reqLog'[c] = reqLog[c] /\ sleeps'[c] = sleeps[c]
             /\ outcome'[c] = outcome[c] /\ pc'[c] = "done")]_vars

C11_Witness ==
  \E c \in Calls :
    /\ Waiting(c)
    /\ outcome[c].state = "resolved"
    /\ outcome[c].value.status = "failed"
    /\ Len(reqLog[c]) = 2
    /\ sleeps[c] = <<call[c].pollInterval>>

C17_ConfiguredValuesKept ==
  [][client.state = "none" =>
     \A cfg \in Configs :
       (Construct(cfg.apiKey, cfg.baseUrl, cfg.timeout, cfg.retries)
        /\ client'.state = "ready") =>
         /\ client'.timeout =
              (IF cfg.timeout = U THEN 30000 ELSE cfg.timeout.n)
         /\ client'.retries =
              (IF cfg.retries = U THEN 3 ELSE cfg.retries.n)]_vars

\* The bodies of an error response that carry no error object: a body that
\* is not JSON, JSON null, and a JSON object without "error".
NoErrorObject(body) ==
  body.kind \in {"notjson", "null"}
  \/ (body.kind = "object" /\ body.error = NoApiError)

\* The error kind a status maps to when the server sent no code.
KindOfStatus(st) ==
  CASE st = 401 -> "AuthenticationError"
    [] st = 404 -> "NotFoundError"
    [] st = 400 -> "ValidationError"
    [] st = 429 -> "RateLimitError"
    [] OTHER -> "EmailVerifyError"

\* C20: a non-2xx response whose body does not parse as JSON, or parses to a
\* value without an error object (JSON null included), that is not retried
\* rejects the call with the error kind mapped from its status, the status
\* text as message and, for the base error, the code UNKNOWN_ERROR.
C20_AbsentErrorObject ==
  [][\A c \in Calls :
       (/\ pc[c] = "request"
        /\ Top(c).phase = "errBody"
        /\ ~Top(c).bodyUsed
        /\ ~(Top(c).status \in Transient
             /\ CanRetry(Top(c).attempt, client.retries))) =>
       \A b \in {x \in ErrorBodies : NoErrorObject(x)} :
         ErrorBody(c, b) =>
         LET e == outcome'[c].error
         IN /\ pc'[c] = "done"
            /\ outcome'[c].state = "rejected"
            /\ e.name = KindOfStatus(Top(c).status)
            /\ e.statusCode = Top(c).status
            /\ e.message = StatusText
            /\ e.name = "EmailVerifyError" => e.code = "UNKNOWN_ERROR"]_vars

\* The first attempt of the first request of call c is in flight.
FirstAttempt(c) ==
  /\ pc[c] = "request"
  /\ Len(stack[c]) = 1
  /\ Len(reqLog[c]) = 1

\* A success response to the first attempt of call c gives the result the
\* claim names: undefined for 204, with no read of the body, and the parsed
\* body for every other 2xx status.
PassesThrough(c) ==
  /\ Top(c).phase = "fetch" =>
       \A h \in HeadersOf(204) :
         Respond(c, 204, h) =>
           (pc'[c] = "done" /\ outcome'[c] = Resolved(JUndefined))
  /\ Top(c).phase = "okBody" =>
       \A b \in SuccessBodies \ {NotJson} :
         SuccessBody(c, b) =>
           (pc'[c] = "done" /\ outcome'[c] = Resolved(b))

\* The domain methods that call request() themselves
\* (waitForBulkJobCompletion calls getBulkJobStatus).
CallsRequest(c) == call[c].op \notin {"none", "waitForBulkJobCompletion"}

C13_SignatureMatchesExactly ==
  lib.op = "verifyWebhookSignature" =>
    lib.result =
      (IF lib.signature = <<"s", "h", "a", "2", "5", "6", "=">>
                          \o Hmac(lib.secret, lib.payload)
       THEN "true" ELSE "false")

C13_Witness ==
  /\ lib.op = "verifyWebhookSignature"
  /\ lib.result = "true"
  /\ lib.payload = <<"a", "b">>
  /\ lib.secret = <<"k">>

\* C14: verifyWebhookSignature never throws, whatever the strings it is
\* given (empty ones and a signature of another length included): its
\* value is a boolean, and an invocation with the inputs of an earlier one
\* gives the same boolean whatever calls were made in between.
C14_NeverThrows ==
  [][lib'.op = "verifyWebhookSignature" =>
       /\ lib'.result \in {"true", "false"}
       /\ (/\ lib.op = "verifyWebhookSignature"
           /\ lib'.payload = lib.payload
           /\ lib'.signature = lib.signature
           /\ lib'.secret = lib.secret) => lib'.result = lib.result]_vars

C14_Witness ==
  /\ lib.op = "verifyWebhookSignature"
  /\ lib.result = "false"
  /\ lib.signature = <<>>
  /\ lib.payload = <<>>
  /\ lib.secret = <<>>
  /\ \E c \in Calls : pc[c] = "request"

\* C18: every error variant has its fixed code and status whatever message
\* it is constructed with (Authentication INVALID_API_KEY/401, RateLimit
\* RATE_LIMIT_EXCEEDED/429 with retryAfter as given and 0 when not given,
\* Validation INVALID_REQUEST/400 with details as given, InsufficientCredits
\* INSUFFICIENT_CREDITS/403, NotFound NOT_FOUND/404, Timeout TIMEOUT/504),
\* and is an EmailVerifyError.
C18_FixedCodeAndStatus ==
  lib.op = "newError" =>
    LET e == lib.error
        v == lib.variant
    IN /\ e.name = v
       /\ IsEmailVerifyError(e)
       /\ v = "AuthenticationError" =>
            (e.code = "INVALID_API_KEY" /\ e.statusCode = 401)
       /\ v = "RateLimitError" =>
            /\ e.code = "RATE_LIMIT_EXCEEDED"
            /\ e.statusCode = 429
            /\ e.retryAfter = (IF lib.retryAfter = U THEN N(0)
                               ELSE lib.retryAfter)
       /\ v = "ValidationError" =>
            /\ e.code = "INVALID_REQUEST"
            /\ e.statusCode = 400
            /\ e.details = lib.details
       /\ v = "InsufficientCreditsError" =>
            (e.code = "INSUFFICIENT_CREDITS" /\ e.statusCode = 403)
       /\ v = "NotFoundError" => (e.code = "NOT_FOUND" /\ e.statusCode = 404)
       /\ v = "TimeoutError" => (e.code = "TIMEOUT" /\ e.statusCode = 504)

C18_Witness ==
  /\ lib.op = "newError"
  /\ lib.variant = "RateLimitError"
  /\ lib.message = <<"m">>
  /\ lib.retryAfter = U
  /\ lib.error.retryAfter = N(0)
  /\ lib.error.message = <<"m">>

\* The query parameter name=value, or nothing when it is left out.
Param(name, included, value) ==
  IF included THEN <<name, "=">> \o value ELSE <<>>
Amp(a, b) ==
  IF a = <<>> THEN b ELSE IF b = <<>> THEN a ELSE a \o <<"&">> \o b

\* C19: getBulkJobResults issues GET /verify/bulk/{jobId}/results with the
\* parameters limit, offset, status in this order: offset when it was given
\* (0 included), limit when it was given and is not 0, status when it was
\* given and is not empty, and no '?' when no parameter is included.
C19_ResultsQuery ==
  [][\A c \in Calls :
       (client.state = "ready" /\ pc[c] = "idle") =>
       \A l \in AllLimits, o \in AllOffsets, s \in AllResultStatuses :
         GetBulkJobResults(c, l, o, s) =>
         LET query ==
               Amp(Amp(Param("limit", l # U /\ l # N(0),
                             IF l = U THEN <<>> ELSE Digits(l.n)),
                       Param("offset", o # U,
                             IF o = U THEN <<>> ELSE Digits(o.n))),
                   Param("status", s # Undefined /\ s # "", <<s>>))
         IN /\ Len(reqLog'[c]) = 1
            /\ reqLog'[c][1].method = "GET"
            /\ reqLog'[c][1].url =
                 client.baseUrl \o <<"/verify/bulk/", JobId, "/results">>
                 \o (IF query = <<>> THEN <<>> ELSE <<"?">> \o query)]_vars

C19_Witness ==
  \E c \in Calls :
    /\ call[c].op = "getBulkJobResults"
    /\ Len(reqLog[c]) = 1
    /\ reqLog[c][1].url =
         DEFAULT_BASE_URL
         \o <<"/verify/bulk/", JobId, "/results", "?", "offset", "=", "0",
              "&", "status", "=", "valid">>

\* Call d is where it was: its arguments, its position, its activations of
\* request() with their attempt numbers, its result, its requests and sleeps.
Untouched(d) ==
  /\ call'[d] = call[d]
  /\ pc'[d] = pc[d]
  /\ stack'[d] = stack[d]
  /\ outcome'[d] = outcome[d]
  /\ reqLog'[d] = reqLog[d]
  /\ sleeps'[d] = sleeps[d]

\* C16: with several calls in progress on one client in any interleaving,
\* the client's apiKey, baseUrl, timeout and retries keep the values of the
\* construction; every step belongs to one call and leaves the attempts,
\* requests and outcome of every other call as they were; every call counts
\* its own attempts from 1, and its 503 response is retried exactly when its
\* own attempt number is below retries, whatever the other calls have done.
C16_CallsAreIndependent ==
  [][/\ client.state = "ready" => client' = client
     /\ \E c \in Slots : \A d \in Slots \ {c} : Untouched(d)
     /\ \A c \in Slots :
          pc'[c] = "request" =>
            /\ Len(reqLog'[c]) = Len(stack'[c])
            /\ \A i \in 1..Len(stack'[c]) :
                 /\ stack'[c][i].attempt = i
                 /\ reqLog'[c][i].attempt = i
     /\ \A c \in Slots :
          (/\ pc[c] = "request"
           /\ Top(c).phase = "errBody"
           /\ Top(c).status = 503
           /\ ErrorBody(c, ConcBody)) =>
            IF Top(c).attempt < client.retries
            THEN /\ pc'[c] = "request"
                 /\ stack'[c][Len(stack'[c])].phase = "sleep"
            ELSE /\ pc'[c] = "done"
                 /\ outcome'[c].state = "rejected"
                 /\ outcome'[c].error.statusCode = 503]_vars

C16_Witness ==
  \E c \in Slots : \E d \in Slots \ {c} :
    /\ client.retries = 2
    /\ pc[c] = "done"
    /\ outcome[c].state = "rejected"
    /\ Len(reqLog[c]) = 2
    /\ pc[d] = "request"
    /\ Len(reqLog[d]) = 1
    /\ stack[d][1].phase = "sleep"

\* Call c is in the backoff sleep of handleErrorResponse.
InBackoff(c) ==
  pc[c] = "request" /\ stack[c] # <<>> /\ Top(c).phase = "sleep"

\* The ms that the backoff sleep after a response of attempt a is to last:
\* the Retry-After seconds of a 429 when they are a number other than 0,
\* else 2^a seconds.
BackoffMs(status, header, a) ==
  IF status = 429 /\ SecondsOf(header).n # 0
  THEN SecondsOf(header).n * 1000
  ELSE (2 ^ a) * 1000

\* C21: the backoff sleep between attempt a and attempt a + 1 (a >= 1,
\* a < retries) lasts 2^a seconds after a 500, 502 or 503 response, and after
\* a 429 response the Retry-After seconds when they are a number other than
\* 0 and 2^a seconds otherwise; one sleep, and only one, separates two
\* consecutive attempts.
C21_BackoffDuration ==
  [][\A c \in Calls :
       /\ (pc[c] = "request" /\ Top(c).phase = "errBody" /\ InBackoff(c)') =>
            /\ Top(c).status \in {429, 500, 502, 503}
            /\ Top(c).attempt >= 1
            /\ Top(c).attempt < client.retries
            /\ sleeps'[c] =
                 Append(sleeps[c],
                        BackoffMs(Top(c).status, Top(c).header,
                                  Top(c).attempt))
            /\ reqLog'[c] = reqLog[c]
       /\ (pc[c] = "request" /\ Top(c).phase = "sleep") =>
            (BackoffOver(c) =>
               /\ sleeps'[c] = sleeps[c]
               /\ Len(reqLog'[c]) = Len(reqLog[c]) + 1
               /\ reqLog'[c][Len(reqLog'[c])].attempt = Top(c).attempt + 1)
       /\ (pc'[c] = "request" /\ SingleRequest(c)') =>
            Len(sleeps'[c]) =
              (IF InBackoff(c)'
               THEN Len(reqLog'[c]) ELSE Len(reqLog'[c]) - 1)]_vars

C21_Witness ==
  \E c \in Calls :
    /\ SingleRequest(c)
    /\ client.retries = 3
    /\ Len(reqLog[c]) = 3
    /\ sleeps[c] = <<12000, 4000>>

\* C22: for 500/502/503 responses, and for 429 responses without a
\* Retry-After header, the backoff delays of one call are 1 s, 2 s, 4 s, ...:
\* 1 second before the second attempt and double the previous one after.
C22_BackoffStartsAtOneSecond ==
  [][\A c \in Calls :
       (/\ pc[c] = "request"
        /\ Top(c).phase = "errBody"
        /\ \/ Top(c).status \in {500, 502, 503}
           \/ Top(c).status = 429 /\ ~Top(c).header.present) =>
         \A b \in ErrorBodies :
           (ErrorBody(c, b) /\ InBackoff(c)') =>
             sleeps'[c][Len(sleeps'[c])] =
               (IF Top(c).attempt = 1 THEN 1000
                ELSE 2 * sleeps[c][Len(sleeps[c])])]_vars

\* C23: waitForBulkJobCompletion has returned or rejected no later than
\* maxWait ms after it was called, whatever pollInterval is and however long
\* the polls take.
C23_WaitBoundedByMaxWait ==
  \A c \in Calls :
    (Waiting(c) /\ pc[c] = "done") => elapsed[c] <= call[c].maxWait

\* C25 as stated: for every retries value the constructor accepts, 0
\* included, and whatever the server answers, one logical call issues no
\* more requests than the configured retries.
C25_RequestsWithinRetries ==
  \A c \in Calls : CallsRequest(c) => Len(reqLog[c]) <= client.retries

\* C25 (amended): it issues no more than max(1, retries) requests: the first
\* attempt is made whatever retries is.  The attempt counter counts the
\* attempts made, whatever statuses they were answered with.
C25_RequestsWithinRetries_Amended ==
  \A c \in Calls :
    /\ CallsRequest(c) =>
         /\ Len(reqLog[c]) <= (IF client.retries > 1 THEN client.retries ELSE 1)
         /\ \A i \in 1..Len(reqLog[c]) : reqLog[c][i].attempt = i
    /\ pc[c] = "request" =>
         /\ Len(stack[c]) <= (IF client.retries > 1 THEN client.retries ELSE 1)
         /\ \A i \in 1..Len(stack[c]) : stack[c][i].attempt = i

C25_Witness ==
  \E c \in Calls :
    /\ CallsRequest(c)
    /\ client.retries = 3
    /\ pc[c] = "request"
    /\ Len(reqLog[c]) = 3
    /\ stack[c][1].status = 429
    /\ stack[c][2].status = 503
    /\ Top(c).status = 500
    /\ Top(c).phase = "errBody"

\* C26: a call that rejects after one or more retries rejects with the error
\* of its last attempt alone: the error mapped from the last response, a
\* TimeoutError or network error when the last attempt failed in transport;
\* it does not reject when its last attempt succeeded, and nothing of an
\* earlier attempt reaches the caller.
C26_LastAttemptDecides ==
  [][\A c \in Calls :
       (pc[c] = "request" /\ Len(stack[c]) > 1 /\ SingleRequest(c)) =>
         LET e == outcome'[c].error
         IN /\ Top(c).phase = "okBody" =>
                 \A b \in SuccessBodies \ {NotJson} :
                   SuccessBody(c, b) => outcome'[c].state # "rejected"
            /\ Top(c).phase = "errBody" =>
                 \A b \in {x \in ErrorBodies : x.kind = "object"} :
                   (ErrorBody(c, b) /\ pc'[c] = "done") =>
                     /\ outcome'[c].state = "rejected"
                     /\ e.statusCode = Top(c).status
                     /\ CarriesServerText(e, b)
            /\ (TimeoutElapses(c) /\ pc'[c] = "done") =>
                 (outcome'[c].state = "rejected" /\ e.name = "TimeoutError")
            /\ TransportFailure(c) =>
                 (outcome'[c].state = "rejected" /\ IsNetworkError(e))]_vars

\* The attempts of call c whose abort timer is armed.
Armed(c) == {i \in 1..Len(timers[c]) : timers[c][i] = "armed"}

\* C24: the abort timer of an attempt is cleared on every way out of the
\* attempt (response, cancellation, transport failure): a call has one timer
\* per attempt, at most one of them armed, and only that of the attempt
\* whose fetch is awaited; none is armed during a backoff sleep, between two
\* polls, or once the call has settled.
C24_TimersCleared ==
  \A c \in Calls :
    /\ Len(timers[c]) = Len(reqLog[c])
    /\ Cardinality(Armed(c)) <= 1
    /\ Armed(c) \subseteq {Len(timers[c])}
    /\ Armed(c) # {} => (pc[c] = "request" /\ Top(c).phase = "fetch")
    /\ InBackoff(c) => Armed(c) = {}
    /\ pc[c] \in {"idle", "pollSleep", "done"} => Armed(c) = {}

C24_Witness ==
  \E c \in Calls :
    /\ pc[c] = "done"
    /\ outcome[c].state = "rejected"
    /\ IsNetworkError(outcome[c].error)
    /\ timers[c] = <<"cleared", "cleared">>
    /\ Len(sleeps[c]) = 1

\* C27: every call made through request() settles in the end, the timers
\* firing and the server answering or stalling: no attempt and no retry
\* leaves the call pending for ever.
C27_EventuallySettles ==
  \A c \in Calls : (pc[c] = "request") ~> (pc[c] = "done")

====
